---- MODULE Spec2Model ----
(***************************************************************************)
(* Broker-integration layer of sq5rix/swarm: SwarmRabbitMQ (swarm/coreq.py) *)
(* on top of RabbitMQHandler (swarm/handler.py), with the consumer retry    *)
(* loop of test2.py (start_consumer_for_agent).                             *)
(*                                                                          *)
(* The broker is modelled by what the code asks of it: queues (declared     *)
(* passively or actively), bindings of a queue to an exchange under a       *)
(* routing key, topic routing of a publish, delivery to a consumer with a   *)
(* prefetch window, ack and nack-with-requeue.  A failed broker call raises *)
(* in the caller, as the try/except blocks of the code expect.  Message     *)
(* expiry (x-message-ttl) is recorded as a queue argument; the passage of   *)
(* an hour is not modelled.  created_at of a binding is not modelled.       *)
(***************************************************************************)
EXTENDS Integers, Sequences, FiniteSets, TLC

\* ---------------------------------------------------------------- bounds
\* messages a queue may hold (ready plus unacknowledged)
MaxQueue == 2
\* calls the main thread makes on the client
MaxCalls == 2
\* connection-level failures (broker outage, channel closed, a call cut off)
MaxFailures == 1

\* ------------------------------------------------------ program constants
\* coreq.py:87  "x-message-ttl": 3600000
MessageTTL == 3600000
\* coreq.py:375  basic_qos(prefetch_count=1)
PrefetchCount == 1
\* test2.py:28  max_retries = 3
max_retries == 3
\* test2.py:41  wait_time = retry_count * 5
BackoffUnit == 5
\* handler.py:54  delivery_mode=2
DeliveryModePersistent == 2

\* handler.py:28, 50, 66: the exchange _connect declares and publish uses
PublishExchange == "agent_exchange"
\* coreq.py:96: the exchange register_agent binds the queue to
BindExchange == "amq.topic"

\* ------------------------------------------------------------ agent names
\* An agent is identified by its name.  A string is modelled as a sequence
\* of pieces, each a word or a single character, so that lower() and
\* replace(' ', '_') are computed piece by piece: "Agent A", "Agent B" and
\* "agent_a".
AgentA == <<"Agent", " ", "A">>
AgentB == <<"Agent", " ", "B">>
Agent_a == <<"agent", "_", "a">>
Agents == {AgentA, AgentB, Agent_a}
\* test2.py:73 starts one consumer thread for each of agent_a, agent_b
ConsumerAgents == {AgentA, AgentB}

\* str.lower() on one piece
LowerChar(c) ==
    CASE c = "Agent" -> "agent"
      [] c = "A" -> "a"
      [] c = "B" -> "b"
      [] OTHER -> c

\* name.lower().replace(' ', '_')
Slug(name) ==
    [i \in 1..Len(name) |->
        IF LowerChar(name[i]) = " " THEN "_" ELSE LowerChar(name[i])]

\* f"agent_{slug}_queue"
QueueName(name) ==
    <<"agent_">> \o Slug(name) \o <<"_queue">>

\* f"agent.{slug}"
RoutingKey(name) ==
    <<"agent.">> \o Slug(name)

\* the binding register_agent records (created_at left out)
Binding(name) ==
    [queue_name |-> QueueName(name), routing_key |-> RoutingKey(name)]

\* an agent name that is not a key of agent_queues maps to NoBinding
NoBinding == [queue_name |-> <<>>, routing_key |-> <<>>]

\* ------------------------------------------------------------- envelopes
Messages1 == <<[role |-> "user", content |-> "I want to talk to agent B."]>>
Context1 == [conversation_id |-> "test_123"]
Contexts == {Context1}
\* test2.py:107: the agent that hands off
Senders == {AgentA}

\* float("inf"), the default of max_turns
Infinity == "inf"
None == "None"

\* coreq.py:291-299
initial_message(messages, context_variables) ==
    [messages |-> messages,
     context_variables |-> context_variables,
     model |-> None,
     stream |-> FALSE,
     debug |-> FALSE,
     max_turns |-> Infinity,
     execute_tools |-> TRUE]

\* a handoff envelope that does not name its sender
handoff_message_NoSender(from_agent, messages, context_variables) ==
    [from_agent |-> <<>>,
     messages |-> messages,
     context_variables |-> context_variables]

\* coreq.py:245-249
handoff_message(from_agent, messages, context_variables) ==
    [from_agent |-> from_agent,
     messages |-> messages,
     context_variables |-> context_variables]

\* The keys of a dict in insertion order, as json.dumps writes them.
KeyOrder(env) ==
    IF "from_agent" \in DOMAIN env
    THEN <<"from_agent", "messages", "context_variables">>
    ELSE <<"messages", "context_variables", "model", "stream", "debug",
           "max_turns", "execute_tools">>

\* json.dumps of the value under key k: None -> null, inf -> Infinity,
\* True/False -> true/false; strings, lists and dicts keep their structure.
JsonValue(k, v) ==
    CASE k = "model" -> (IF v = None THEN "null" ELSE v)
      [] k = "max_turns" -> (IF v = Infinity THEN "Infinity" ELSE v)
      [] k \in {"stream", "debug", "execute_tools"} -> (IF v THEN "true" ELSE "false")
      [] OTHER -> v

\* json.loads of the value under key k
PyValue(k, j) ==
    CASE k = "model" -> (IF j = "null" THEN None ELSE j)
      [] k = "max_turns" -> (IF j = "Infinity" THEN Infinity ELSE j)
      [] k \in {"stream", "debug", "execute_tools"} -> (j = "true")
      [] OTHER -> j

\* json.dumps(message): the body is the sequence of (key, value) members
JsonDumps(env) ==
    [json |-> [i \in 1..Len(KeyOrder(env)) |->
                  <<KeyOrder(env)[i], JsonValue(KeyOrder(env)[i], env[KeyOrder(env)[i]])>>]]

\* a body that is not JSON
Malformed == [raw |-> "not json"]

\* no body and no decoded message (in the history records)
NoBody == [raw |-> ""]
NoMessage == [nothing |-> TRUE]

IsJson(body) == "json" \in DOMAIN body

\* json.loads(body): the mapping with the members of the body
JsonLoads(body) ==
    LET members == body.json
        keys == {members[i][1] : i \in 1..Len(members)}
        at(k) == CHOOSE i \in 1..Len(members) : members[i][1] = k
    IN [k \in keys |-> PyValue(k, members[at(k)][2])]

\* ------------------------------------------------------------------ state
VARIABLES
    brokerUp,           \* the broker accepts new connections
    conn,               \* rabbitmq.connection: "open" or "closed"
    chan,               \* rabbitmq.channel: "open" or "closed"
    failures,           \* history: connection-level failures so far
    calls,              \* history: calls the main thread has made
    agent_queues,       \* SwarmRabbitMQ.agent_queues: name -> binding
    registered_agents,  \* SwarmRabbitMQ.registered_agents
    bqueues,            \* broker: queue name -> declared arguments
    bbind,              \* broker: set of <<exchange, queue, routing key>>
    ready,              \* broker: queue name -> messages waiting
    unacked,            \* broker: consumer -> deliveries not yet acked
    qos,                \* channel: the prefetch count set by basic_qos, 0 if none
    pc,                 \* consumer thread of test2.py: position in its loop
    retry_count,        \* start_consumer_for_agent: retry_count
    attempts,           \* history: start_consuming calls made by the thread
    waits,              \* history: wait_time of every time.sleep of the thread
    regLog,             \* history: results of the first two register_agent calls
    lastCall,           \* history: the call the main thread made in the last step, if any
    lastDelivery        \* history: the last delivery the message handler handled

vars == <<brokerUp, conn, chan, failures, calls, agent_queues, registered_agents,
          bqueues, bbind, ready, unacked, qos, pc, retry_count, attempts, waits,
          regLog, lastCall, lastDelivery>>

QueueNames == {QueueName(a) : a \in Agents}
RoutingKeys == {RoutingKey(a) : a \in Agents}

\* The state as one record, so that a method is a function from state to state.
World ==
    [brokerUp |-> brokerUp, conn |-> conn, chan |-> chan, failures |-> failures,
     calls |-> calls,
     agent_queues |-> agent_queues, registered_agents |-> registered_agents,
     bqueues |-> bqueues, bbind |-> bbind, ready |-> ready, unacked |-> unacked,
     qos |-> qos,
     pc |-> pc, retry_count |-> retry_count, attempts |-> attempts, waits |-> waits,
     regLog |-> regLog]

Becomes(w) ==
    /\ brokerUp' = w.brokerUp
    /\ conn' = w.conn
    /\ chan' = w.chan
    /\ failures' = w.failures
    /\ calls' = w.calls
    /\ agent_queues' = w.agent_queues
    /\ registered_agents' = w.registered_agents
    /\ bqueues' = w.bqueues
    /\ bbind' = w.bbind
    /\ ready' = w.ready
    /\ unacked' = w.unacked
    /\ qos' = w.qos
    /\ pc' = w.pc
    /\ retry_count' = w.retry_count
    /\ attempts' = w.attempts
    /\ waits' = w.waits
    /\ regLog' = w.regLog


\* --------------------------------------------------------------- broker
\* a queue name the broker does not know maps to NoQueue
NoQueue == [exists |-> FALSE, durable |-> FALSE, ttl |-> 0, type |-> "none"]

\* a queue declared without the message TTL
RegisteredQueueArgs_NoTTL ==
    [exists |-> TRUE, durable |-> TRUE, ttl |-> 0, type |-> "classic"]

\* coreq.py:83-90: durable, x-message-ttl 3600000, x-queue-type classic
RegisteredQueueArgs ==
    [exists |-> TRUE, durable |-> TRUE, ttl |-> MessageTTL, type |-> "classic"]

\* handler.py:64: queue_declare(queue=queue_name, durable=True)
SetupQueueArgs ==
    [exists |-> TRUE, durable |-> TRUE, ttl |-> 0, type |-> "classic"]

\* queue_declare(queue, passive=True) succeeds iff the queue exists
QueueExists(w, q) == w.bqueues[q].exists

\* queue_declare(queue, ...): creates the queue unless it exists
QueueDeclare(w, q, args) ==
    IF QueueExists(w, q) THEN w ELSE [w EXCEPT !.bqueues[q] = args]

\* queue_bind(exchange, queue, routing_key)
QueueBind(w, exchange, q, key) ==
    [w EXCEPT !.bbind = @ \cup {<<exchange, q, key>>}]

\* topic routing without wildcards: the queues bound to the exchange under the key
RoutedQueues(w, exchange, key) ==
    {q \in QueueNames : <<exchange, q, key>> \in w.bbind}

\* messages a queue holds: waiting plus delivered and not acknowledged
Held(w, q) ==
    Len(w.ready[q])
    + Cardinality({a \in ConsumerAgents : QueueName(a) = q /\ w.unacked[a] # <<>>})

Redelivered(msgs) == [i \in 1..Len(msgs) |-> [msgs[i] EXCEPT !.redelivered = TRUE]]

RECURSIVE UnackedOf(_, _, _)
\* the unacknowledged deliveries of the consumers in cs that consume queue q
UnackedOf(w, q, cs) ==
    IF cs = {} THEN <<>>
    ELSE LET a == CHOOSE x \in cs : TRUE
         IN (IF QueueName(a) = q THEN w.unacked[a] ELSE <<>>)
            \o UnackedOf(w, q, cs \ {a})

\* an except block that raises again once the retries are used up
ExceptBlock_Reraises(w, a) ==
    LET n == w.retry_count[a] + 1
    IN IF n < max_retries
       THEN [w EXCEPT !.retry_count[a] = n,
                      !.waits[a] = Append(@, n * BackoffUnit),
                      !.pc[a] = "RetryWait"]
       ELSE [w EXCEPT !.retry_count[a] = n, !.pc[a] = "Crashed"]

\* test2.py:37-48: the except block of start_consumer_for_agent.  The thread
\* is in RetryWait from here until time.sleep(wait_time) has returned and the
\* loop enters start_consuming again.
ExceptBlock(w, a) ==
    LET n == w.retry_count[a] + 1
    IN IF n < max_retries
       THEN [w EXCEPT !.retry_count[a] = n,
                      !.waits[a] = Append(@, n * BackoffUnit),
                      !.pc[a] = "RetryWait"]
       ELSE [w EXCEPT !.retry_count[a] = n, !.pc[a] = "Stopped"]

RECURSIVE ConsumersRaise(_, _)
\* channel.start_consuming() raises in every thread in cs that is blocked in
\* it (coreq.py:383), and the retry loop of the thread catches the exception
ConsumersRaise(w, cs) ==
    IF cs = {} THEN w
    ELSE LET a == CHOOSE x \in cs : TRUE
         IN ConsumersRaise(IF w.pc[a] = "Consuming" THEN ExceptBlock(w, a) ELSE w,
                           cs \ {a})

\* The channel closes: the broker requeues the unacknowledged deliveries of
\* its consumers, marked redelivered, and their blocking start_consuming raises.
ChannelGone(w) ==
    [ConsumersRaise(w, ConsumerAgents) EXCEPT
        !.chan = "closed",
        !.qos = 0,
        !.failures = @ + 1,
        !.ready = [q \in QueueNames |->
                      Redelivered(UnackedOf(w, q, ConsumerAgents)) \o w.ready[q]],
        !.unacked = [a \in ConsumerAgents |-> <<>>]]

\* The connection is lost, and its channel with it.
ConnectionGone(w) == [ChannelGone(w) EXCEPT !.conn = "closed"]

\* ------------------------------------------------------ RabbitMQHandler
\* handler.py:12-19: the attributes __init__ sets on the handler
HandlerAttributes == {"credentials", "parameters", "connection", "channel"}

\* handler.py:9-72: the methods of the handler
HandlerMethods == {"_connect", "ensure_connection", "publish_message",
                   "setup_queue", "close"}

\* handler.py:21-32: _connect raises when the broker is unreachable
ConnectRaises(w) == ~w.brokerUp

\* handler.py:24-29: a new connection, a new channel, the exchange declared
Connect(w) == [w EXCEPT !.conn = "open", !.chan = "open", !.qos = 0]

\* handler.py:34-43: the decorator reconnects only when the connection is
\* missing or closed; it does not look at the channel
EnsureRaises(w) == w.conn # "open" /\ ConnectRaises(w)

EnsureConnection(w) == IF w.conn # "open" THEN Connect(w) ELSE w

\* handler.py:45-59: the outcome of publish_message(routing_key, message);
\* fault = "publish": the connection is lost as basic_publish is sent
PublishRaises(w, fault) ==
    \/ EnsureRaises(w)
    \/ fault = "publish"
    \/ EnsureConnection(w).chan # "open"

PublishMessage(w, routing_key, message, fault) ==
    IF EnsureRaises(w) THEN w
    ELSE IF fault = "publish" THEN ConnectionGone(EnsureConnection(w))
    ELSE IF EnsureConnection(w).chan # "open" THEN EnsureConnection(w)
    ELSE LET w1 == EnsureConnection(w)
             msg == [body |-> JsonDumps(message),
                     routing_key |-> routing_key,
                     delivery_mode |-> DeliveryModePersistent,
                     redelivered |-> FALSE]
         IN [w1 EXCEPT !.ready = [q \in QueueNames |->
                IF q \in RoutedQueues(w1, PublishExchange, routing_key)
                THEN Append(w1.ready[q], msg) ELSE w1.ready[q]]]

\* handler.py:61-67
SetupQueueRaises(w) == EnsureRaises(w) \/ EnsureConnection(w).chan # "open"

SetupQueueWorld(w, queue_name, routing_key) ==
    IF SetupQueueRaises(w) THEN (IF EnsureRaises(w) THEN w ELSE EnsureConnection(w))
    ELSE QueueBind(QueueDeclare(EnsureConnection(w), queue_name, SetupQueueArgs),
                   PublishExchange, queue_name, routing_key)

\* handler.py:69-72: connection.close() is called only on an open connection;
\* fault = "close": the underlying close fails
CloseRaises(w, fault) == w.conn = "open" /\ fault = "close"

\* handler.py:69-72: the exception that leaves close(); there is no try
CloseOutcome(w, fault) == IF CloseRaises(w, fault) THEN "AMQPError" ELSE "returned"

\* handler.py:69-72: the state close() leaves; the connection is gone whether
\* its close completed or failed
CloseWorld(w, fault) == IF w.conn = "open" THEN ConnectionGone(w) ELSE w

CloseFaults == {"none", "close"}

\* -------------------------------------------------------- SwarmRabbitMQ
\* coreq.py:173-227.  The reconnect branches read rabbitmq.host, .port,
\* .username and .password and the handler of the except branch calls
\* rabbitmq.reconnect(): an attribute or method the handler does not have
\* raises AttributeError.
VerifyConnection(w) ==
    IF w.conn # "open"
    THEN IF {"host", "port", "username", "password"} \subseteq HandlerAttributes
         THEN ~ConnectRaises(w)
         ELSE IF "reconnect" \in HandlerMethods THEN ~ConnectRaises(w) ELSE FALSE
    ELSE IF w.chan # "open"
    THEN IF {"host", "port", "username", "password"} \subseteq HandlerAttributes
         THEN ~ConnectRaises(w)
         ELSE IF "reconnect" \in HandlerMethods THEN ~ConnectRaises(w) ELSE FALSE
    ELSE TRUE

\* the state verify_connection leaves: a reconnect replaces the handler
AfterVerify(w) ==
    IF w.conn = "open" /\ w.chan = "open" THEN w
    ELSE IF VerifyConnection(w) THEN Connect(w) ELSE w

RegFaults == {"none", "declare", "bind"}

\* the entry register_agent leaves in regLog
Logged(w, before, a, ret) ==
    IF Len(before.regLog[a]) < 2 /\ w.failures = 0
    THEN [w EXCEPT !.regLog[a] = Append(@, [ret |-> ret, binding |-> w.agent_queues[a]])]
    ELSE w

\* register_agent without the "already registered" check of coreq.py:58-64
RegisterReturns_NotIdempotent(w, a, fault) ==
    /\ VerifyConnection(w)
    /\ fault = "none"

\* coreq.py:48-122: the value register_agent(agent) returns;
\* fault names the broker call at which the connection is lost, if any
RegisterReturns(w, a, fault) ==
    /\ VerifyConnection(w)
    /\ w.agent_queues[a] = NoBinding
    /\ fault = "none"

\* a register_agent that records the binding before it provisions the queue
RegisterAgentWorld_RecordsFirst(w, a, fault) ==
    LET w0 == AfterVerify(w)
        q == QueueName(a)
        key == RoutingKey(a)
        recorded == [w0 EXCEPT !.agent_queues[a] = Binding(a),
                               !.registered_agents = Append(@, a)]
        declared == QueueDeclare(recorded, q, RegisteredQueueArgs)
        bound == QueueBind(declared, BindExchange, q, key)
    IN IF ~VerifyConnection(w) THEN w0
       ELSE IF w0.agent_queues[a] # NoBinding THEN w0
       ELSE IF fault = "declare" THEN ConnectionGone(recorded)
       ELSE IF fault = "bind" THEN ConnectionGone(declared)
       ELSE bound

\* a register_agent that provisions and records an agent it has recorded before
RegisterAgentWorld_Reregisters(w, a, fault) ==
    LET w0 == AfterVerify(w)
        q == QueueName(a)
        key == RoutingKey(a)
        declared == QueueDeclare(w0, q, RegisteredQueueArgs)
        bound == QueueBind(declared, BindExchange, q, key)
        recorded == [bound EXCEPT !.agent_queues[a] = Binding(a),
                                  !.registered_agents = Append(@, a)]
    IN IF ~VerifyConnection(w) THEN w0
       ELSE IF fault = "declare" THEN ConnectionGone(w0)
       ELSE IF fault = "bind" THEN ConnectionGone(declared)
       ELSE recorded

\* coreq.py:48-122: the state register_agent(agent) leaves
RegisterAgentWorld(w, a, fault) ==
    LET w0 == AfterVerify(w)
        q == QueueName(a)
        key == RoutingKey(a)
        declared == QueueDeclare(w0, q, RegisteredQueueArgs)
        bound == QueueBind(declared, BindExchange, q, key)
        recorded == [bound EXCEPT !.agent_queues[a] = Binding(a),
                                  !.registered_agents = Append(@, a)]
    IN IF ~VerifyConnection(w) THEN w0
       ELSE IF w0.agent_queues[a] # NoBinding THEN w0
       ELSE IF fault = "declare" THEN ConnectionGone(w0)
       ELSE IF fault = "bind" THEN ConnectionGone(declared)
       ELSE recorded

\* the exception classes an "except Exception" clause catches (coreq.py:120,
\* 169, 218, 366; test2.py:37); KeyboardInterrupt is not one of them
ExceptExceptionCatches ==
    {"ConnectionError", "AMQPError", "AttributeError", "KeyError", "ValueError",
     "JSONDecodeError", "CallbackError"}

\* coreq.py:54-118: the exception the body of register_agent raises, if any:
\* ConnectionError at line 56, the broker's error re-raised at line 110
RegisterBodyRaises(w, a, fault) ==
    IF ~VerifyConnection(w) THEN "ConnectionError"
    ELSE IF w.agent_queues[a] # NoBinding THEN "none"
    ELSE IF fault # "none" THEN "AMQPError"
    ELSE "none"

\* coreq.py:120-122: what reaches the caller of register_agent
RegisterOutcome(w, a, fault) ==
    IF RegisterBodyRaises(w, a, fault) \in ExceptExceptionCatches \cup {"none"}
    THEN "returned"
    ELSE RegisterBodyRaises(w, a, fault)

register_agent(w, a, fault) ==
    Logged(RegisterAgentWorld(w, a, fault), w, a, RegisterReturns(w, a, fault))

PubFaults == {"none", "publish"}

\* one step of a call, as recorded in lastCall.events
Event(ev, agent, ret, routing_key, message, body, queues) ==
    [ev |-> ev, agent |-> agent, ret |-> ret, routing_key |-> routing_key,
     message |-> message, body |-> body, queues |-> queues]

RegisterEvent(w, a, fault) ==
    Event("register_agent", a, RegisterReturns(w, a, fault), <<>>, NoMessage, NoBody, {})

PublishEvent(w, routing_key, message) ==
    Event("publish", <<>>, TRUE, routing_key, message, JsonDumps(message),
          RoutedQueues(w, PublishExchange, routing_key))

\* test2.py:64-65 and coreq.py:124: the lists register_agents is called with
AgentLists == {<<AgentA, AgentB, Agent_a>>, <<AgentB, AgentA>>}

RECURSIVE RegisterEach(_, _, _, _, _, _, _)
\* coreq.py:130-134: the loop of register_agents from the i-th agent on;
\* the broker call named by fault fails for the agent at position at
RegisterEach(w, agents, i, at, fault, registered, events) ==
    IF i > Len(agents)
    THEN [w |-> w, registered |-> registered, events |-> events]
    ELSE LET f == IF i = at THEN fault ELSE "none"
         IN RegisterEach(register_agent(w, agents[i], f), agents, i + 1, at, fault,
                         IF RegisterReturns(w, agents[i], f)
                         THEN Append(registered, agents[i]) ELSE registered,
                         Append(events, RegisterEvent(w, agents[i], f)))

\* coreq.py:124-134
register_agents(w, agents, at, fault) ==
    RegisterEach(w, agents, 1, at, fault, <<>>, <<>>)

\* a get_registered_agents that returns the roster itself
get_registered_agents_NoCopy(w) ==
    [list |-> w.registered_agents, aliased |-> TRUE]

\* coreq.py:136-138: self.registered_agents.copy() is a new list object with
\* the same items; aliased says whether the returned list is the roster itself
get_registered_agents(w) ==
    [list |-> w.registered_agents, aliased |-> FALSE]

\* what a caller may do to a list it holds: append an item, remove the last
\* item, reverse the order
Reversed(list) == [i \in 1..Len(list) |-> list[Len(list) + 1 - i]]

ListMutations(list) ==
    {Append(list, AgentB), Reversed(list)}
    \cup (IF list = <<>> THEN {} ELSE {SubSeq(list, 1, Len(list) - 1)})

\* the consumers the broker counts on a queue
ConsumerCount(w, q) ==
    Cardinality({a \in ConsumerAgents : QueueName(a) = q /\ w.pc[a] = "Consuming"})

\* coreq.py:150-165: the entry debug_queues makes for an agent; ok says
\* whether queue_declare(queue_name, passive=True) returned
DebugEntry(w, a, ok) ==
    [agent |-> a,
     queue_name |-> w.agent_queues[a].queue_name,
     routing_key |-> w.agent_queues[a].routing_key,
     message_count |-> IF ok THEN Len(w.ready[w.agent_queues[a].queue_name]) ELSE 0,
     consumer_count |-> IF ok THEN ConsumerCount(w, w.agent_queues[a].queue_name) ELSE 0,
     status |-> IF ok THEN "active" ELSE "error"]

RECURSIVE DebugEach_Aborts(_, _, _, _, _)
\* a debug_queues whose first failed query ends the call with no entries
DebugEach_Aborts(w, names, i, at, entries) ==
    IF i > Len(names) THEN [w |-> w, entries |-> entries]
    ELSE LET a == names[i]
             ok == /\ w.chan = "open"
                   /\ i # at
                   /\ QueueExists(w, w.agent_queues[a].queue_name)
             w1 == IF i = at /\ w.chan = "open" THEN ConnectionGone(w) ELSE w
         IN IF ok
            THEN DebugEach_Aborts(w1, names, i + 1, at,
                                  Append(entries, DebugEntry(w, a, ok)))
            ELSE [w |-> w1, entries |-> <<>>]

RECURSIVE DebugEach(_, _, _, _, _)
\* coreq.py:144-165: the loop of debug_queues over agent_queues.items() from
\* the i-th key on.  The keys of agent_queues are in insertion order, which is
\* the order of registered_agents (coreq.py:112-117).  The connection is lost
\* at the query for the key at position at.
DebugEach(w, names, i, at, entries) ==
    IF i > Len(names) THEN [w |-> w, entries |-> entries]
    ELSE LET a == names[i]
             ok == /\ w.chan = "open"
                   /\ i # at
                   /\ QueueExists(w, w.agent_queues[a].queue_name)
             w1 == IF i = at /\ w.chan = "open" THEN ConnectionGone(w) ELSE w
         IN DebugEach(w1, names, i + 1, at, Append(entries, DebugEntry(w, a, ok)))

\* coreq.py:140-171
debug_queues(w, at) == DebugEach(w, w.registered_agents, 1, at, <<>>)

\* coreq.py:389-397: __del__ calls rabbitmq.close() inside try / except
\* Exception
DelOutcome(w, fault) ==
    IF CloseOutcome(w, fault) \in ExceptExceptionCatches \cup {"returned"}
    THEN "returned"
    ELSE CloseOutcome(w, fault)

\* coreq.py:319: the acknowledgement run returns
QueuedResponse == "Message queued for processing"

\* the lazy registration of run and handoff_to_agent (coreq.py:242-243, 281-282)
EnsureRegistered(w, a, fault) ==
    IF w.agent_queues[a] = NoBinding THEN register_agent(w, a, fault) ELSE w

EnsureRegisteredEvents(w, a, fault) ==
    IF w.agent_queues[a] = NoBinding THEN <<RegisterEvent(w, a, fault)>> ELSE <<>>

\* a dispatch that derives the routing key from the name when the agent has
\* no binding, and publishes under it
Dispatch_DerivesKey(op, w0, w1, a, from_agent, message, events, pfault, ret) ==
    LET call == [op |-> op, agent |-> a, from_agent |-> from_agent,
                 was_bound |-> w0.agent_queues[a] # NoBinding,
                 events |-> events, outcome |-> "KeyError", ret |-> None,
                 returned |-> <<>>, fault_at |-> 0, aliased |-> FALSE]
        key == RoutingKey(a)
    IN IF PublishRaises(w1, pfault)
       THEN [w |-> PublishMessage(w1, key, message, pfault),
             call |-> [call EXCEPT !.outcome = "publish_error"]]
       ELSE [w |-> PublishMessage(w1, key, message, pfault),
             call |-> [call EXCEPT
                         !.events = Append(events,
                             PublishEvent(EnsureConnection(w1), key, message)),
                         !.outcome = "returned",
                         !.ret = ret]]

\* The lookup, publish and return that run and handoff_to_agent share:
\* agent_queues[name]["routing_key"] raises KeyError for a name without a
\* binding; publish_message may raise; otherwise the call returns.
Dispatch(op, w0, w1, a, from_agent, message, events, pfault, ret) ==
    LET call == [op |-> op, agent |-> a, from_agent |-> from_agent,
                 was_bound |-> w0.agent_queues[a] # NoBinding,
                 events |-> events, outcome |-> "KeyError", ret |-> None,
                 returned |-> <<>>, fault_at |-> 0, aliased |-> FALSE]
    IN IF w1.agent_queues[a] = NoBinding
       THEN [w |-> w1, call |-> call]
       ELSE LET key == w1.agent_queues[a].routing_key
            IN IF PublishRaises(w1, pfault)
               THEN [w |-> PublishMessage(w1, key, message, pfault),
                     call |-> [call EXCEPT !.outcome = "publish_error"]]
               ELSE [w |-> PublishMessage(w1, key, message, pfault),
                     call |-> [call EXCEPT
                                 !.events = Append(events,
                                     PublishEvent(EnsureConnection(w1), key, message)),
                                 !.outcome = "returned",
                                 !.ret = ret]]

\* a run that publishes and returns no acknowledgement
run_ReturnsNothing(w, agent, messages, context_variables, rfault, pfault) ==
    Dispatch("run", w, EnsureRegistered(w, agent, rfault), agent, <<>>,
             initial_message(messages, context_variables),
             EnsureRegisteredEvents(w, agent, rfault), pfault, None)

\* coreq.py:265-320
run(w, agent, messages, context_variables, rfault, pfault) ==
    Dispatch("run", w, EnsureRegistered(w, agent, rfault), agent, <<>>,
             initial_message(messages, context_variables),
             EnsureRegisteredEvents(w, agent, rfault), pfault, QueuedResponse)

\* coreq.py:229-263
handoff_to_agent(w, from_agent, to_agent, messages, context_variables, rfault, pfault) ==
    Dispatch("handoff_to_agent", w, EnsureRegistered(w, to_agent, rfault), to_agent,
             from_agent, handoff_message(from_agent, messages, context_variables),
             EnsureRegisteredEvents(w, to_agent, rfault), pfault, None)

\* every queue a publish under the key would reach has room for one more message
RoomFor(w, key) ==
    \A q \in RoutedQueues(w, PublishExchange, key) : Held(w, q) < MaxQueue

\* ------------------------------------------------------- consumer side
\* coreq.py:346-347, 375-378: the exception start_consuming raises, if any
StartConsumingError(w, a) ==
    IF w.agent_queues[a] = NoBinding THEN "ValueError"
    ELSE IF w.chan # "open" THEN "AMQPError"
    ELSE IF ~QueueExists(w, w.agent_queues[a].queue_name) THEN "AMQPError"
    ELSE "none"

\* coreq.py:344-378: start_consuming raises ValueError for an agent without a
\* binding, and basic_qos / basic_consume raise on a closed channel
StartConsumingRaises(w, a) == StartConsumingError(w, a) # "none"

\* a start_consuming that sets the prefetch count before it validates the agent
start_consuming_QosFirst(w, a) ==
    LET w1 == [w EXCEPT !.attempts[a] = @ + 1]
    IN IF w.chan # "open" THEN ExceptBlock(w1, a)
       ELSE IF StartConsumingRaises(w, a)
       THEN ExceptBlock([w1 EXCEPT !.qos = PrefetchCount], a)
       ELSE [w1 EXCEPT !.qos = PrefetchCount, !.pc[a] = "Consuming"]

\* a start_consuming that leaves the prefetch count of the channel as it is
start_consuming_NoQos(w, a) ==
    LET w1 == [w EXCEPT !.attempts[a] = @ + 1]
    IN IF StartConsumingRaises(w, a)
       THEN ExceptBlock(w1, a)
       ELSE [w1 EXCEPT !.pc[a] = "Consuming"]

\* test2.py:31-36 with coreq.py:344-383: one pass of the retry loop up to
\* the blocking channel.start_consuming(): the validation (346-347), then
\* basic_qos (375) and basic_consume (376-378)
start_consuming(w, a) ==
    LET w1 == [w EXCEPT !.attempts[a] = @ + 1]
    IN IF StartConsumingRaises(w, a)
       THEN ExceptBlock(w1, a)
       ELSE [w1 EXCEPT !.qos = PrefetchCount, !.pc[a] = "Consuming"]

NoDelivery ==
    [agent |-> <<>>, message |-> NoMessage, routing_key |-> <<>>, redelivered |-> FALSE,
     callback |-> "none",
     ack |-> FALSE, nack |-> FALSE, requeue |-> FALSE]

CallbackResults == {"completed", "raised"}

\* a handler that acknowledges whatever the callback did
HandlerAcks_Always(msg, cb) == IsJson(msg.body)

\* coreq.py:351-369: default_callback on the oldest unacknowledged delivery of
\* the consumer; cb is what the supplied callback does
HandlerAcks(msg, cb) == IsJson(msg.body) /\ cb = "completed"

Handled(a, msg, cb) ==
    [agent |-> a,
     message |-> IF IsJson(msg.body) THEN JsonLoads(msg.body) ELSE NoMessage,
     routing_key |-> msg.routing_key,
     redelivered |-> msg.redelivered,
     callback |-> IF IsJson(msg.body) THEN cb ELSE "not_invoked",
     ack |-> HandlerAcks(msg, cb),
     nack |-> ~HandlerAcks(msg, cb),
     requeue |-> ~HandlerAcks(msg, cb)]

\* a handler whose basic_nack does not requeue
default_callback_NoRequeue(w, a, cb) ==
    [w EXCEPT !.unacked[a] = Tail(@)]

\* basic_ack removes the delivery; basic_nack(requeue=True) puts the message
\* back at the head of its queue, marked redelivered
default_callback(w, a, cb) ==
    LET msg == Head(w.unacked[a])
        q == QueueName(a)
    IN IF HandlerAcks(msg, cb)
       THEN [w EXCEPT !.unacked[a] = Tail(@)]
       ELSE [w EXCEPT !.unacked[a] = Tail(@),
                      !.ready[q] = <<[msg EXCEPT !.redelivered = TRUE]>> \o @]

\* coreq.py:383-387 with 351-369: KeyboardInterrupt is raised in the thread of
\* a while it is blocked in channel.start_consuming().  It is no Exception, so
\* when it is raised inside default_callback the except clause of line 366
\* does not catch it and neither basic_ack nor basic_nack runs: the delivery
\* the thread holds stays unacknowledged.  The except clause of line 384 calls
\* stop_consuming, start_consuming returns and the loop of test2.py:34-36 ends.
keyboard_interrupt(w, a) == [w EXCEPT !.pc[a] = "Returned"]

\* coreq.py:375-383: the threads blocked in channel.start_consuming().  Every
\* thread uses the one channel of the handler (self.rabbitmq.channel), and so
\* does publish_message (handler.py:49); the code takes no lock.
ChannelUsers(w) == {a \in ConsumerAgents : w.pc[a] = "Consuming"}

\* ---------------------------------------------------------------- actions
NoCall ==
    [op |-> "none", agent |-> <<>>, from_agent |-> <<>>, was_bound |-> FALSE,
     events |-> <<>>, outcome |-> "none", ret |-> None,
     returned |-> <<>>, fault_at |-> 0, aliased |-> FALSE]

Init ==
    /\ brokerUp = TRUE
    /\ conn = "open"
    /\ chan = "open"
    /\ failures = 0
    /\ calls = 0
    /\ agent_queues = [a \in Agents |-> NoBinding]
    /\ registered_agents = <<>>
    /\ bqueues = [q \in QueueNames |-> NoQueue]
    /\ bbind = {}
    /\ ready = [q \in QueueNames |-> <<>>]
    /\ unacked = [a \in ConsumerAgents |-> <<>>]
    /\ qos = 0
    /\ pc = [a \in ConsumerAgents |-> "Idle"]
    /\ retry_count = [a \in ConsumerAgents |-> 0]
    /\ attempts = [a \in ConsumerAgents |-> 0]
    /\ waits = [a \in ConsumerAgents |-> <<>>]
    /\ regLog = [a \in Agents |-> <<>>]
    /\ lastCall = NoCall
    /\ lastDelivery = NoDelivery

\* the faults a call may meet: none once the failures are used up
Allowed(faults) == IF failures < MaxFailures THEN faults ELSE {"none"}

\* the main thread makes one more call
Called(w) == [w EXCEPT !.calls = @ + 1]

\* client.register_agent(agent)
RegisterAgent ==
    \E a \in Agents, fault \in Allowed(RegFaults) :
        /\ calls < MaxCalls
        /\ Becomes(Called(register_agent(World, a, fault)))
        /\ lastCall' = [NoCall EXCEPT
                           !.op = "register_agent", !.agent = a,
                           !.was_bound = agent_queues[a] # NoBinding,
                           !.events = <<RegisterEvent(World, a, fault)>>,
                           !.outcome = RegisterOutcome(World, a, fault),
                           !.fault_at = IF fault = "none" THEN 0 ELSE 1]
        /\ UNCHANGED lastDelivery

\* client.register_agents(agents)
RegisterAgents ==
    \E agents \in AgentLists, fault \in {"declare", "bind"} :
        \E at \in (IF failures < MaxFailures THEN 0..Len(agents) ELSE {0}) :
            LET r == register_agents(World, agents, at, fault)
            IN /\ calls < MaxCalls
               /\ Becomes(Called(r.w))
               /\ lastCall' = [NoCall EXCEPT
                                  !.op = "register_agents",
                                  !.events = r.events,
                                  !.outcome = "returned",
                                  !.returned = r.registered,
                                  !.fault_at = at]
               /\ UNCHANGED lastDelivery

\* client.verify_connection()
VerifyConnectionCall ==
    /\ calls < MaxCalls
    /\ Becomes(Called(AfterVerify(World)))
    /\ lastCall' = [NoCall EXCEPT
                       !.op = "verify_connection",
                       !.events = <<Event("verify_connection", <<>>,
                                          VerifyConnection(World), <<>>,
                                          NoMessage, NoBody, {})>>,
                       !.outcome = "returned"]
    /\ UNCHANGED lastDelivery

\* client.get_registered_agents()
GetRegisteredAgents ==
    /\ calls < MaxCalls
    /\ Becomes(Called(World))
    /\ lastCall' = [NoCall EXCEPT
                       !.op = "get_registered_agents",
                       !.outcome = "returned",
                       !.returned = get_registered_agents(World).list,
                       !.aliased = get_registered_agents(World).aliased]
    /\ UNCHANGED lastDelivery

\* the caller changes the list get_registered_agents returned to it; a list
\* that is the roster itself changes the roster with it
MutateReturned ==
    \E list \in ListMutations(lastCall.returned) :
        /\ lastCall.op = "get_registered_agents"
        /\ list # lastCall.returned
        /\ Becomes(IF lastCall.aliased
                   THEN [World EXCEPT !.registered_agents = list]
                   ELSE World)
        /\ lastCall' = [lastCall EXCEPT !.op = "mutated", !.returned = list]
        /\ UNCHANGED lastDelivery

\* client.debug_queues()
DebugQueues ==
    \E at \in (IF failures < MaxFailures /\ chan = "open"
                THEN 0..Len(registered_agents) ELSE {0}) :
        LET r == debug_queues(World, at)
        IN /\ calls < MaxCalls
           /\ Becomes(Called(r.w))
           /\ lastCall' = [NoCall EXCEPT
                              !.op = "debug_queues",
                              !.outcome = "returned",
                              !.returned = r.entries,
                              !.fault_at = at]
           /\ UNCHANGED lastDelivery

\* client.rabbitmq.close()
Close ==
    \E fault \in CloseFaults :
        /\ calls < MaxCalls
        /\ conn = "open" => failures < MaxFailures
        /\ Becomes(Called(CloseWorld(World, fault)))
        /\ lastCall' = [NoCall EXCEPT
                           !.op = "close",
                           !.outcome = CloseOutcome(World, fault)]
        /\ UNCHANGED lastDelivery

\* del client (test2.py:150): __del__ runs, and the main thread makes no
\* further call on the client
Del ==
    \E fault \in CloseFaults :
        /\ calls < MaxCalls
        /\ conn = "open" => failures < MaxFailures
        /\ Becomes([CloseWorld(World, fault) EXCEPT !.calls = MaxCalls])
        /\ lastCall' = [NoCall EXCEPT
                           !.op = "__del__",
                           !.outcome = DelOutcome(World, fault)]
        /\ UNCHANGED lastDelivery

\* client.run(agent, messages, context_variables)
Run ==
    \E a \in Agents, ctx \in Contexts,
       rfault \in Allowed(RegFaults), pfault \in Allowed(PubFaults) :
        LET r == run(World, a, Messages1, ctx, rfault, pfault)
        IN /\ calls < MaxCalls
           /\ RoomFor(EnsureRegistered(World, a, rfault), RoutingKey(a))
           /\ r.w.failures <= MaxFailures
           /\ Becomes(Called(r.w))
           /\ lastCall' = r.call
           /\ UNCHANGED lastDelivery

\* client.handoff_to_agent(from_agent, to_agent, messages, context_variables)
Handoff ==
    \E f \in Senders, t \in Agents, ctx \in Contexts,
       rfault \in Allowed(RegFaults), pfault \in Allowed(PubFaults) :
        LET r == handoff_to_agent(World, f, t, Messages1, ctx, rfault, pfault)
        IN /\ calls < MaxCalls
           /\ RoomFor(EnsureRegistered(World, t, rfault), RoutingKey(t))
           /\ r.w.failures <= MaxFailures
           /\ Becomes(Called(r.w))
           /\ lastCall' = r.call
           /\ UNCHANGED lastDelivery

\* client.rabbitmq.setup_queue(queue_name, routing_key)
SetupQueue ==
    \E a \in Agents :
        /\ calls < MaxCalls
        /\ Becomes(Called(SetupQueueWorld(World, QueueName(a), RoutingKey(a))))
        /\ lastCall' = [NoCall EXCEPT
                           !.op = "setup_queue", !.agent = a,
                           !.outcome = IF SetupQueueRaises(World)
                                       THEN "setup_error" ELSE "returned"]
        /\ UNCHANGED lastDelivery

\* the consumer thread of an agent enters start_consuming: for the first
\* time, or after the sleep of its last retry
StartConsuming ==
    \E a \in ConsumerAgents :
        /\ pc[a] \in {"Idle", "RetryWait"}
        /\ retry_count[a] < max_retries
        /\ Becomes(start_consuming(World, a))
        /\ lastCall' = NoCall
        /\ UNCHANGED lastDelivery

\* the broker delivers the next message of the queue to the consumer of a,
\* whose prefetch window has room
DeliverTo(a) ==
    /\ pc[a] = "Consuming"
    /\ (qos = 0 \/ Len(unacked[a]) < qos)
    /\ ready[QueueName(a)] # <<>>
    /\ unacked' = [unacked EXCEPT ![a] = Append(@, Head(ready[QueueName(a)]))]
    /\ ready' = [ready EXCEPT ![QueueName(a)] = Tail(@)]
    /\ UNCHANGED <<brokerUp, conn, chan, failures, calls, agent_queues,
                   registered_agents, bqueues, bbind, qos, pc, retry_count,
                   attempts, waits, regLog, lastDelivery>>
    /\ lastCall' = NoCall

Deliver == \E a \in ConsumerAgents : DeliverTo(a)

\* the message handler of the consumer of a runs on its oldest delivery
HandleBy(a) ==
    \E cb \in CallbackResults :
        /\ pc[a] = "Consuming"
        /\ unacked[a] # <<>>
        /\ Becomes(default_callback(World, a, cb))
        /\ lastDelivery' = Handled(a, Head(unacked[a]), cb)
        /\ lastCall' = NoCall

Handle == \E a \in ConsumerAgents : HandleBy(a)

\* a manual interrupt reaches the consumer thread of a in its loop
Interrupt ==
    \E a \in ConsumerAgents :
        /\ pc[a] = "Consuming"
        /\ Becomes(keyboard_interrupt(World, a))
        /\ lastCall' = NoCall
        /\ UNCHANGED lastDelivery

\* the broker closes the channel and keeps the connection
ChannelClosed ==
    /\ chan = "open"
    /\ failures < MaxFailures
    /\ Becomes(ChannelGone(World))
    /\ lastCall' = NoCall
    /\ UNCHANGED lastDelivery

\* another client of the broker publishes a body that is not JSON straight to
\* an agent's queue (default exchange, routing key = queue name); the body
\* reaches json.loads in default_callback (coreq.py:354)
MalformedArrives ==
    \E q \in QueueNames :
        /\ failures < MaxFailures
        /\ bqueues[q].exists
        /\ Held(World, q) < MaxQueue
        /\ Becomes([World EXCEPT
                       !.failures = @ + 1,
                       !.ready[q] = Append(@, [body |-> Malformed,
                                               routing_key |-> q,
                                               delivery_mode |-> DeliveryModePersistent,
                                               redelivered |-> FALSE])])
        /\ lastCall' = NoCall
        /\ UNCHANGED lastDelivery

\* an empty queue without consumers is deleted on the broker, and its
\* bindings with it
QueueDeleted ==
    \E q \in QueueNames :
        /\ failures < MaxFailures
        /\ bqueues[q].exists
        /\ Held(World, q) = 0
        /\ ConsumerCount(World, q) = 0
        /\ Becomes([World EXCEPT
                       !.failures = @ + 1,
                       !.bqueues[q] = NoQueue,
                       !.bbind = {b \in @ : b[2] # q}])
        /\ lastCall' = NoCall
        /\ UNCHANGED lastDelivery

\* the broker becomes unreachable
BrokerDown ==
    /\ brokerUp
    /\ failures < MaxFailures
    /\ Becomes([ConnectionGone(World) EXCEPT !.brokerUp = FALSE])
    /\ lastCall' = NoCall
    /\ UNCHANGED lastDelivery

\* the broker is reachable again
BrokerBack ==
    /\ ~brokerUp
    /\ brokerUp' = TRUE
    /\ UNCHANGED <<conn, chan, failures, calls, agent_queues, registered_agents,
                   bqueues, bbind, ready, unacked, qos, pc, retry_count, attempts,
                   waits, regLog, lastDelivery>>
    /\ lastCall' = NoCall

Next ==
    \/ RegisterAgent
    \/ RegisterAgents
    \/ VerifyConnectionCall
    \/ GetRegisteredAgents
    \/ DebugQueues
    \/ Close
    \/ Del
    \/ MutateReturned
    \/ Run
    \/ Handoff
    \/ SetupQueue
    \/ StartConsuming
    \/ Deliver
    \/ Handle
    \/ Interrupt
    \/ ChannelClosed
    \/ MalformedArrives
    \/ QueueDeleted
    \/ BrokerDown
    \/ BrokerBack

Spec == Init /\ [][Next]_vars

\* The broker pushes a waiting message to a consumer whose prefetch window
\* has room, and the blocking loop of a consumer thread runs the handler on a
\* delivery it holds: both happen unless the channel goes first.
LiveSpec ==
    /\ Spec
    /\ \A a \in ConsumerAgents : WF_vars(DeliverTo(a)) /\ WF_vars(HandleBy(a))


\* ------------------------------------------------------------------ claims
PublishEvents(call) ==
    {i \in 1..Len(call.events) : call.events[i].ev = "publish"}

RegisterEvents(call) ==
    {i \in 1..Len(call.events) : call.events[i].ev = "register_agent"}

\* C1: on an instance whose connection has met no failure, the first
\* register_agent call for an agent returns true, the second returns false,
\* and the binding (queue_name, routing_key) recorded for the agent is the
\* same after both calls.
C1_RegisterTwice ==
    \A a \in Agents :
        /\ Len(regLog[a]) >= 1 =>
              /\ regLog[a][1].ret = TRUE
              /\ regLog[a][1].binding.queue_name = QueueName(a)
              /\ regLog[a][1].binding.routing_key = RoutingKey(a)
        /\ Len(regLog[a]) >= 2 =>
              /\ regLog[a][2].ret = FALSE
              /\ regLog[a][2].binding = regLog[a][1].binding

C1_Witness ==
    \E a \in Agents : Len(regLog[a]) = 2 /\ agent_queues[a] = regLog[a][2].binding

\* C2: every registered agent's queue is bound, under the agent's routing
\* key, to the exchange publish_message publishes to, and so every envelope
\* run or handoff_to_agent publishes to a registered agent's routing key is
\* enqueued on that agent's queue.
C2_OneExchange ==
    /\ \A a \in Agents :
          agent_queues[a] # NoBinding =>
             <<PublishExchange, agent_queues[a].queue_name,
               agent_queues[a].routing_key>> \in bbind
    /\ \A i \in PublishEvents(lastCall) :
          QueueName(lastCall.agent) \in lastCall.events[i].queues

\* C3: an envelope published to a registered agent's routing key reaches the
\* agent's queue, from which the consumer of the agent hands its callback a
\* mapping equal to the published envelope; and the callback is only handed
\* envelopes that were published under the agent's routing key.
C3_RoundTrip ==
    /\ \A i \in PublishEvents(lastCall) :
          /\ QueueName(lastCall.agent) \in lastCall.events[i].queues
          /\ JsonLoads(lastCall.events[i].body) = lastCall.events[i].message
    /\ lastDelivery.callback \in CallbackResults =>
          /\ lastDelivery.routing_key = RoutingKey(lastDelivery.agent)
          /\ lastDelivery.message
                \in {initial_message(Messages1, c) : c \in Contexts}
                    \cup {handoff_message(f, Messages1, c) : f \in Senders, c \in Contexts}

\* C4: a delivery the message handler has handled is acknowledged if and
\* only if the callback completed without error; when the callback raised,
\* the delivery was negatively acknowledged with requeue and not acknowledged.
C4_AckIffCallbackCompleted ==
    lastDelivery.agent \in ConsumerAgents =>
        /\ lastDelivery.ack <=> lastDelivery.callback = "completed"
        /\ lastDelivery.callback = "raised" =>
              lastDelivery.nack /\ lastDelivery.requeue /\ ~lastDelivery.ack
        /\ ~(lastDelivery.ack /\ lastDelivery.nack)

C4_Witness ==
    /\ lastDelivery.agent \in ConsumerAgents
    /\ lastDelivery.callback = "raised"
    /\ lastDelivery.nack

\* the handler of the consumer of a has just run on a delivery
HandleStep(a) ==
    /\ pc[a] = "Consuming"
    /\ pc'[a] = "Consuming"
    /\ unacked[a] # <<>>
    /\ unacked'[a] = Tail(unacked[a])

HeldNow(q) == Held(World, q)

\* the callback of a raised on a message that now waits in the queue again
NackedWaiting(a) ==
    /\ pc[a] = "Consuming"
    /\ lastDelivery.agent = a
    /\ lastDelivery.nack
    /\ unacked[a] = <<>>
    /\ ready[QueueName(a)] # <<>>
    /\ Head(ready[QueueName(a)]).redelivered

\* the consumer of a holds a delivery the broker marked redelivered
RedeliveredTo(a) ==
    /\ unacked[a] # <<>>
    /\ Head(unacked[a]).redelivered

\* C5 (within the message time-to-live): a message whose callback raises is
\* put back at the head of the agent's queue, marked redelivered; while the
\* consumer keeps running the broker delivers it again and the handler runs
\* on it again; and a queue loses a message only by a delivery of it being
\* acknowledged.
C5_AtLeastOnce ==
    /\ [][\A a \in ConsumerAgents :
            /\ (HandleStep(a) /\ lastDelivery'.callback = "raised") =>
                  ready'[QueueName(a)]
                     = <<[Head(unacked[a]) EXCEPT !.redelivered = TRUE]>>
                       \o ready[QueueName(a)]
            /\ HeldNow(QueueName(a))' < HeldNow(QueueName(a)) =>
                  /\ HandleStep(a)
                  /\ lastDelivery'.ack
                  /\ lastDelivery'.agent = a
                  /\ HeldNow(QueueName(a))' = HeldNow(QueueName(a)) - 1]_vars
    /\ \A a \in ConsumerAgents :
          /\ NackedWaiting(a) ~> (RedeliveredTo(a) \/ pc[a] # "Consuming")
          /\ (RedeliveredTo(a) /\ pc[a] = "Consuming")
                ~> ((lastDelivery.agent = a /\ lastDelivery.redelivered
                        /\ unacked[a] = <<>>)
                    \/ pc[a] # "Consuming")

C5_Witness ==
    \E a \in ConsumerAgents :
        /\ pc[a] = "Consuming"
        /\ lastDelivery.agent = a
        /\ lastDelivery.redelivered
        /\ lastDelivery.callback = "raised"

\* C6: a consumer whose every start_consuming call failed has, when it stops,
\* made exactly 3 attempts and waited 5, 10 and 15 time units.
C6_ThreeWaits ==
    \A a \in ConsumerAgents :
        pc[a] = "Stopped" => attempts[a] = 3 /\ waits[a] = <<5, 10, 15>>

\* What the retry loop of test2.py does instead (C6): a consumer whose
\* start_consuming failed 3 times made exactly 3 attempts and waited twice,
\* 5 time units after the first failure and 10 after the second; it stops
\* after the third failure without waiting.
C6_ThreeAttemptsTwoWaits ==
    \A a \in ConsumerAgents :
        /\ pc[a] = "Stopped" =>
              attempts[a] = 3 /\ retry_count[a] = 3 /\ waits[a] = <<5, 10>>
        /\ \A i \in 1..Len(waits[a]) : waits[a][i] = i * 5
        /\ Len(waits[a]) = IF retry_count[a] < 3 THEN retry_count[a] ELSE 2

C6_Witness ==
    \E a \in ConsumerAgents : pc[a] = "Stopped" /\ agent_queues[a] # NoBinding

\* C7: a consumer thread is Stopped exactly when start_consuming has failed
\* 3 times; the retry loop never lets an exception escape (the thread is
\* never Crashed); and a thread that stops while the channel stays as it is
\* leaves the other consumers, the connection and the registry untouched.
C7_RetryLoopTerminates ==
    /\ [](\A a \in ConsumerAgents :
            /\ pc[a] \in {"Idle", "Consuming", "RetryWait", "Stopped", "Returned"}
            /\ pc[a] = "Stopped" <=> retry_count[a] = 3
            /\ retry_count[a] <= 3)
    /\ [][\A a \in ConsumerAgents :
            (pc[a] # "Stopped" /\ pc'[a] = "Stopped" /\ chan' = chan) =>
                /\ \A b \in ConsumerAgents \ {a} :
                      pc'[b] = pc[b] /\ retry_count'[b] = retry_count[b]
                         /\ unacked'[b] = unacked[b]
                /\ UNCHANGED <<conn, agent_queues, registered_agents, ready,
                               bqueues, bbind>>]_vars

C7_Witness ==
    \E a \in ConsumerAgents, b \in ConsumerAgents :
        pc[a] = "Stopped" /\ pc[b] = "Consuming" /\ chan = "open"


\* a call that returned registered the agent first if it had no binding, and
\* then published one envelope, under the routing key of the agent's binding
RegisteredThenPublishedOnce(call) ==
    /\ agent_queues[call.agent] = Binding(call.agent)
    /\ IF call.was_bound
       THEN /\ Len(call.events) = 1
            /\ RegisterEvents(call) = {}
       ELSE /\ Len(call.events) = 2
            /\ call.events[1].ev = "register_agent"
            /\ call.events[1].agent = call.agent
            /\ call.events[1].ret = TRUE
    /\ Cardinality(PublishEvents(call)) = 1
    /\ call.events[Len(call.events)].ev = "publish"
    /\ call.events[Len(call.events)].routing_key = RoutingKey(call.agent)
    /\ call.events[Len(call.events)].routing_key = agent_queues[call.agent].routing_key

\* whatever the outcome of a call, it published at most once and only after
\* its registration step
NeverPublishedEarly(call) ==
    /\ Cardinality(PublishEvents(call)) <= 1
    /\ \A i \in PublishEvents(call), j \in RegisterEvents(call) : j < i

\* C8: a handoff_to_agent(A, B, ...) call that returns has, when B had no
\* binding, first registered B (register_agent(B) returned true before the
\* publish) and then published the handoff envelope, carrying from_agent =
\* A's name, under B's routing key exactly once; when B was bound it made no
\* registration and published exactly one envelope.  No handoff publishes
\* before its registration step or more than once.
C8_HandoffRegistersThenPublishes ==
    lastCall.op = "handoff_to_agent" =>
        /\ NeverPublishedEarly(lastCall)
        /\ lastCall.outcome = "returned" =>
              /\ RegisteredThenPublishedOnce(lastCall)
              /\ LET e == lastCall.events[Len(lastCall.events)]
                 IN /\ IsJson(e.body)
                    /\ JsonLoads(e.body).from_agent = lastCall.from_agent
                    /\ JsonLoads(e.body).messages = Messages1
                    /\ JsonLoads(e.body).context_variables \in Contexts

C8_Witness ==
    /\ lastCall.op = "handoff_to_agent"
    /\ lastCall.outcome = "returned"
    /\ ~lastCall.was_bound
    /\ lastCall.agent # lastCall.from_agent

\* the main thread has just made the call lastCall' describes
CallStep(op) ==
    /\ calls' = calls + 1
    /\ lastCall'.op = op

\* C9: a run(agent, ...) call that returns has registered the agent if it had
\* no binding, published exactly one dispatch envelope under the agent's own
\* routing key and returned the 'queued' acknowledgement; the step in which
\* it returns moves no consumer and handles no delivery, so the return does
\* not wait for a consumer.
C9_RunQueuesAndReturns ==
    /\ [](lastCall.op = "run" =>
            /\ NeverPublishedEarly(lastCall)
            /\ lastCall.outcome = "returned" <=> lastCall.ret = QueuedResponse
            /\ lastCall.outcome = "returned" =>
                  /\ RegisteredThenPublishedOnce(lastCall)
                  /\ LET e == lastCall.events[Len(lastCall.events)]
                     IN /\ IsJson(e.body)
                        /\ DOMAIN JsonLoads(e.body)
                              = {"messages", "context_variables", "model", "stream",
                                 "debug", "max_turns", "execute_tools"}
                        /\ JsonLoads(e.body).messages = Messages1
                        /\ JsonLoads(e.body).context_variables \in Contexts)
    /\ [][(CallStep("run") /\ lastCall'.outcome = "returned") =>
            UNCHANGED <<pc, retry_count, attempts, unacked, lastDelivery>>]_vars

C9_Witness ==
    /\ lastCall.op = "run"
    /\ lastCall.outcome = "returned"
    /\ ~lastCall.was_bound
    /\ \A a \in ConsumerAgents : pc[a] # "Consuming"
    /\ ready[QueueName(lastCall.agent)] # <<>>

\* the connection and the channel are open before and after the step
ReachableThroughout ==
    /\ brokerUp /\ conn = "open" /\ chan = "open"
    /\ brokerUp' /\ conn' = "open" /\ chan' = "open"

\* C10: a register_agent call made with the connection to the broker
\* available, for an agent that has no binding and whose queue does not
\* exist, declares the queue
\* durable with the 1-hour message TTL, binds it to the exchange under the
\* agent's routing key, records the binding and returns true; and after any
\* register_agent call that returned true the queue exists, is bound under
\* the routing key, and agent_queues holds the binding.
C10_RegisterProvisions ==
    [][\A a \in Agents :
         (CallStep("register_agent") /\ lastCall'.agent = a) =>
            /\ (/\ ReachableThroughout
                /\ agent_queues[a] = NoBinding
                /\ ~bqueues[QueueName(a)].exists) =>
                  /\ lastCall'.events[1].ret = TRUE
                  /\ bqueues'[QueueName(a)].exists
                  /\ bqueues'[QueueName(a)].durable
                  /\ bqueues'[QueueName(a)].ttl = 60 * 60 * 1000
            /\ lastCall'.events[1].ret = TRUE =>
                  /\ bqueues'[QueueName(a)].exists
                  /\ <<BindExchange, QueueName(a), RoutingKey(a)>> \in bbind'
                  /\ agent_queues'[a].queue_name = QueueName(a)
                  /\ agent_queues'[a].routing_key = RoutingKey(a)
                  /\ registered_agents' = Append(registered_agents, a)]_vars

C10_Witness ==
    /\ lastCall.op = "register_agent"
    /\ lastCall.events[1].ret = TRUE
    /\ bqueues[QueueName(lastCall.agent)].ttl = 60 * 60 * 1000
    /\ agent_queues[lastCall.agent] # NoBinding

\* C11: a register_agents call on three unbound agents, made with the broker
\* reachable and the connection open, in which a broker call fails only for
\* the second agent, returns exactly the first and the third agent, in input
\* order, and both have bindings afterwards.
C11_PartialFailure ==
    [][(/\ CallStep("register_agents")
        /\ brokerUp /\ brokerUp' /\ conn = "open" /\ chan = "open"
        /\ Len(lastCall'.events) = 3
        /\ lastCall'.fault_at = 2
        /\ \A i \in 1..3 : agent_queues[lastCall'.events[i].agent] = NoBinding)
       => /\ lastCall'.returned
               = <<lastCall'.events[1].agent, lastCall'.events[3].agent>>
          /\ agent_queues'[lastCall'.events[1].agent] # NoBinding
          /\ agent_queues'[lastCall'.events[3].agent] # NoBinding]_vars

\* What register_agents does (C11): every agent of the list is attempted, in
\* order; the returned list is the agents whose register_agent returned true,
\* in input order, each with its binding recorded.
C11_ReturnsTheNewlyRegistered ==
    lastCall.op = "register_agents" =>
        /\ Len(lastCall.events) \in {2, 3}
        /\ \A i \in 1..Len(lastCall.returned) :
              \E j \in 1..Len(lastCall.events) :
                  /\ lastCall.events[j].agent = lastCall.returned[i]
                  /\ lastCall.events[j].ret
                  /\ Cardinality({k \in 1..j : lastCall.events[k].ret}) = i
        /\ Len(lastCall.returned)
              = Cardinality({k \in 1..Len(lastCall.events) : lastCall.events[k].ret})
        /\ \A i \in 1..Len(lastCall.returned) :
              agent_queues[lastCall.returned[i]] = Binding(lastCall.returned[i])

C11_Witness ==
    /\ lastCall.op = "register_agents"
    /\ lastCall.fault_at = 2
    /\ Len(lastCall.events) = 3
    /\ lastCall.returned = <<lastCall.events[1].agent>>
    /\ brokerUp

\* C12: a register_agent call always returns to its caller; when the
\* connection or the channel is not open at the call, or a declare or bind
\* step of the call fails, it returns false; and a call that returns false
\* leaves agent_queues and registered_agents exactly as they were.
C12_RegisterNeverRaises ==
    [][CallStep("register_agent") =>
          /\ lastCall'.outcome = "returned"
          /\ (conn # "open" \/ chan # "open" \/ failures' > failures) =>
                lastCall'.events[1].ret = FALSE
          /\ lastCall'.events[1].ret = FALSE =>
                UNCHANGED <<agent_queues, registered_agents>>]_vars

C12_Witness ==
    /\ lastCall.op = "register_agent"
    /\ lastCall.fault_at = 1
    /\ ~lastCall.was_bound
    /\ lastCall.events[1].ret = FALSE
    /\ bqueues[QueueName(lastCall.agent)].exists
    /\ agent_queues[lastCall.agent] = NoBinding

\* C13: a verify_connection call made while the connection or the channel is
\* closed and the broker is reachable returns true and leaves the connection
\* and the channel open; it returns false only when the broker is
\* unreachable; and it always returns to its caller.
C13_VerifyReconnects ==
    [][CallStep("verify_connection") =>
          /\ lastCall'.outcome = "returned"
          /\ ((conn # "open" \/ chan # "open") /\ brokerUp) =>
                /\ lastCall'.events[1].ret = TRUE
                /\ conn' = "open"
                /\ chan' = "open"
          /\ lastCall'.events[1].ret = FALSE => ~brokerUp]_vars

C13_Witness ==
    /\ lastCall.op = "verify_connection"
    /\ lastCall.events[1].ret = FALSE
    /\ brokerUp
    /\ chan # "open"

\* C14: a run or handoff_to_agent call for a bound agent, made while the
\* connection or the channel is closed and the broker is reachable, and whose
\* publish meets no new failure, re-establishes connection and channel and
\* returns with the envelope published; and a call whose publish fails does
\* not return normally.
C14_PublishEnsuresConnection ==
    [][(/\ CallStep("run") \/ CallStep("handoff_to_agent")
        /\ lastCall'.was_bound)
       => /\ ((conn # "open" \/ chan # "open") /\ brokerUp /\ failures' = failures) =>
                /\ lastCall'.outcome = "returned"
                /\ Cardinality(PublishEvents(lastCall')) = 1
                /\ conn' = "open"
                /\ chan' = "open"
          /\ failures' > failures =>
                /\ lastCall'.outcome = "publish_error"
                /\ PublishEvents(lastCall') = {}]_vars

C14_Witness ==
    /\ lastCall.op \in {"run", "handoff_to_agent"}
    /\ lastCall.was_bound
    /\ lastCall.outcome = "publish_error"
    /\ brokerUp
    /\ conn = "open"
    /\ chan # "open"
    /\ calls = 2

\* C15: a start_consuming call for an agent without a binding raises
\* ValueError before any broker operation: the prefetch count of the channel
\* is not set, the thread does not become a consumer, and the registry, the
\* queues, the bindings and the connection are unchanged.
C15_UnboundConsumerRejected ==
    [][\A a \in ConsumerAgents :
         (attempts'[a] = attempts[a] + 1 /\ agent_queues[a] = NoBinding) =>
            /\ StartConsumingError(World, a) = "ValueError"
            /\ retry_count'[a] = retry_count[a] + 1
            /\ pc'[a] \in {"RetryWait", "Stopped"}
            /\ qos' = qos
            /\ UNCHANGED <<agent_queues, registered_agents, bqueues, bbind, ready,
                           unacked, conn, chan>>]_vars

C15_Witness ==
    \E a \in ConsumerAgents :
        /\ agent_queues[a] = NoBinding
        /\ attempts[a] = 1
        /\ retry_count[a] = 1
        /\ chan = "open"
        /\ qos = 0

\* C16: the binding recorded for an agent is the one derived from its name
\* ("Agent A" gives agent_agent_a_queue and agent.agent_a), and any two
\* agents with different names that are both registered have different
\* queue names and different routing keys.
C16_NoCollision ==
    /\ QueueName(AgentA) = <<"agent_", "agent", "_", "a", "_queue">>
    /\ RoutingKey(AgentA) = <<"agent.", "agent", "_", "a">>
    /\ \A a \in Agents :
          agent_queues[a] # NoBinding => agent_queues[a] = Binding(a)
    /\ \A a \in Agents, b \in Agents :
          (a # b /\ agent_queues[a] # NoBinding /\ agent_queues[b] # NoBinding) =>
             /\ agent_queues[a].queue_name # agent_queues[b].queue_name
             /\ agent_queues[a].routing_key # agent_queues[b].routing_key

C16_Witness ==
    /\ agent_queues[AgentA] # NoBinding
    /\ agent_queues[Agent_a] # NoBinding
    /\ agent_queues[AgentA] = agent_queues[Agent_a]
    /\ Len(registered_agents) = 2

\* C17: get_registered_agents returns a list with the items of the roster and
\* changes no registry, broker or connection state; and when the caller then
\* adds to, removes from or reorders the returned list, registered_agents
\* and agent_queues stay as they were.
C17_RosterCopy ==
    [][/\ CallStep("get_registered_agents") =>
             /\ lastCall'.returned = registered_agents
             /\ lastCall'.outcome = "returned"
             /\ UNCHANGED <<registered_agents, agent_queues, brokerUp, conn, chan,
                            bqueues, bbind, ready, unacked, qos, pc, failures>>
       /\ (lastCall.op = "get_registered_agents" /\ lastCall'.op = "mutated") =>
             /\ lastCall'.returned # lastCall.returned
             /\ UNCHANGED <<registered_agents, agent_queues>>]_vars

C17_Witness ==
    /\ lastCall.op = "mutated"
    /\ registered_agents # <<>>
    /\ lastCall.returned # registered_agents
    /\ Len(lastCall.returned) = Len(registered_agents)

C19_CloseNeverRaises ==
    [][(calls' > calls /\ lastCall'.op \in {"close", "__del__"}) =>
          /\ lastCall'.outcome = "returned"
          /\ conn' # "open"]_vars

\* What the code does (C19): the teardown of the client never raises, and
\* close() raises exactly when the underlying close of an open connection
\* fails.
C19_OnlyTeardownSwallows ==
    /\ lastCall.op = "__del__" => lastCall.outcome = "returned"
    /\ lastCall.op = "close" => lastCall.outcome \in {"returned", "AMQPError"}

C19_Witness ==
    /\ lastCall.op = "close"
    /\ lastCall.outcome = "AMQPError"
    /\ conn = "closed"

\* C20: at most one execution unit operates on the channel at a time: no two
\* consumer threads are in their start_consuming loop on it together, and a
\* run or handoff_to_agent publishes on it only while no consumer thread is
\* in its loop.
C20_ChannelSerialized ==
    /\ [](Cardinality(ChannelUsers(World)) <= 1)
    /\ [][((CallStep("run") \/ CallStep("handoff_to_agent"))
             /\ PublishEvents(lastCall') # {})
           => ChannelUsers(World) = {}]_vars

C20_Witness ==
    /\ Cardinality(ChannelUsers(World)) = 2
    /\ chan = "open"
    /\ lastCall.op = "run"
    /\ lastCall.outcome = "returned"

\* C21: a consumer thread that waits for its next attempt after a
\* connection-level failure, with its agent bound, its queue on the broker and
\* the broker reachable, is a consumer again after that attempt, on an open
\* channel.
C21_ConsumerRecovers ==
    [][\A a \in ConsumerAgents :
         (/\ pc[a] = "RetryWait"
          /\ agent_queues[a] # NoBinding
          /\ QueueExists(World, agent_queues[a].queue_name)
          /\ brokerUp
          /\ attempts'[a] = attempts[a] + 1)
         => (pc'[a] = "Consuming" /\ chan' = "open")]_vars

C21_Witness ==
    \E a \in ConsumerAgents :
        /\ pc[a] = "RetryWait"
        /\ agent_queues[a] # NoBinding
        /\ QueueExists(World, agent_queues[a].queue_name)
        /\ brokerUp
        /\ conn = "open"
        /\ chan = "closed"
        /\ attempts[a] = 2
        /\ retry_count[a] = 2

\* C22: a manual interrupt that reaches a running consumer ends its loop
\* without an error (the thread has returned from start_consuming and retries
\* nothing), and the consumer is left holding no delivery that was neither
\* acknowledged nor negatively acknowledged.
C22_GracefulStop ==
    [][\A a \in ConsumerAgents :
         (pc[a] = "Consuming" /\ pc'[a] = "Returned") =>
            /\ retry_count'[a] = retry_count[a]
            /\ unacked'[a] = <<>>]_vars

\* What the interrupt does (C22): the loop ends without an error and without
\* a retry, and the deliveries are as they were.
C22_StopsWithoutError ==
    [][\A a \in ConsumerAgents :
         (pc[a] = "Consuming" /\ pc'[a] = "Returned") =>
            /\ retry_count'[a] = retry_count[a]
            /\ attempts'[a] = attempts[a]
            /\ UNCHANGED <<unacked, ready, chan, conn>>]_vars

C22_Witness ==
    \E a \in ConsumerAgents :
        /\ pc[a] = "Returned"
        /\ unacked[a] # <<>>
        /\ chan = "open"

\* C23: every consumer holds at most one delivered message that is neither
\* acknowledged nor negatively acknowledged (prefetch count 1), whether one
\* or both agents' consumers are on the channel; a consumer in its loop has
\* the prefetch count 1 in force.
C23_PrefetchOne ==
    \A a \in ConsumerAgents :
        /\ Len(unacked[a]) <= PrefetchCount
        /\ pc[a] = "Consuming" => qos = PrefetchCount

C23_Witness ==
    \E a \in ConsumerAgents :
        /\ pc[a] = "Consuming"
        /\ Len(unacked[a]) = 1
        /\ ready[QueueName(a)] # <<>>
        /\ qos = PrefetchCount

\* a well-formed message waits in the queue of the running consumer of a
WellFormedWaiting(a) ==
    /\ pc[a] = "Consuming"
    /\ \E i \in 1..Len(ready[QueueName(a)]) : IsJson(ready[QueueName(a)][i].body)

\* the consumer of a holds a well-formed delivery: its callback is invoked next
WellFormedDelivered(a) ==
    /\ unacked[a] # <<>>
    /\ IsJson(Head(unacked[a]).body)

\* the handler of the consumer of a has just run on a body that is not JSON
MalformedStep(a) == HandleStep(a) /\ ~IsJson(Head(unacked[a]).body)

\* What the handler does with a body that is not JSON (C24): the callback is
\* not invoked, the delivery is negatively acknowledged with requeue, the
\* consumer goes on, and the other messages of its queue and the other queues
\* and consumers are as they were.
C24_MalformedIsolated ==
    [][\A a \in ConsumerAgents :
         MalformedStep(a) =>
            /\ lastDelivery'.callback = "not_invoked"
            /\ lastDelivery'.nack /\ lastDelivery'.requeue /\ ~lastDelivery'.ack
            /\ pc' = pc /\ retry_count' = retry_count
            /\ Tail(ready'[QueueName(a)]) = ready[QueueName(a)]
            /\ \A q \in QueueNames \ {QueueName(a)} : ready'[q] = ready[q]
            /\ \A b \in ConsumerAgents \ {a} : unacked'[b] = unacked[b]]_vars

\* C24: a body that is not JSON does not corrupt the queue: it is handled as
\* C24_MalformedIsolated says, and a well-formed message that waits in the
\* queue of a running consumer is eventually delivered to it, unless the
\* consumer stops or a callback raises first.
C24_MalformedHarmless ==
    /\ C24_MalformedIsolated
    /\ \A a \in ConsumerAgents :
          WellFormedWaiting(a)
             ~> (\/ WellFormedDelivered(a)
                 \/ pc[a] # "Consuming"
                 \/ lastDelivery.callback = "raised")

C24_Witness ==
    \E a \in ConsumerAgents :
        /\ WellFormedWaiting(a)
        /\ ~IsJson(Head(ready[QueueName(a)]).body)
        /\ Head(ready[QueueName(a)]).redelivered
        /\ lastDelivery.agent = a
        /\ lastDelivery.callback = "not_invoked"
        /\ lastDelivery.redelivered

\* C25: every envelope a run or handoff_to_agent call published went out
\* under the routing key recorded in agent_queues for the target agent; and a
\* call whose lazy register_agent returned false ended in an error (the
\* KeyError of the binding lookup), published nothing and returned no
\* 'queued' acknowledgement.
C25_NoPublishWithoutBinding ==
    lastCall.op \in {"run", "handoff_to_agent"} =>
        /\ \A i \in PublishEvents(lastCall) :
              /\ agent_queues[lastCall.agent] # NoBinding
              /\ lastCall.events[i].routing_key
                    = agent_queues[lastCall.agent].routing_key
        /\ (\E j \in RegisterEvents(lastCall) : lastCall.events[j].ret = FALSE) =>
              /\ lastCall.outcome = "KeyError"
              /\ PublishEvents(lastCall) = {}
              /\ lastCall.ret # QueuedResponse
              /\ agent_queues[lastCall.agent] = NoBinding

C25_Witness ==
    /\ lastCall.op = "run"
    /\ ~lastCall.was_bound
    /\ lastCall.events # <<>>
    /\ lastCall.events[1].ev = "register_agent"
    /\ lastCall.events[1].ret = FALSE
    /\ lastCall.outcome = "KeyError"
    /\ brokerUp

\* the keys of agent_queues
RegistryKeys == {a \in Agents : agent_queues[a] # NoBinding}

\* the names of the agents in registered_agents
RosterNames == {registered_agents[i] : i \in 1..Len(registered_agents)}

\* C26: whatever calls were made, the names in registered_agents are exactly
\* the keys of agent_queues and none occurs twice; and no step removes or
\* changes a recorded binding or removes or moves an agent of the roster (the
\* roster only grows at its end).
C26_RegistryGrowsConsistently ==
    /\ [](/\ RosterNames = RegistryKeys
          /\ Len(registered_agents) = Cardinality(RosterNames))
    /\ [][/\ \A a \in Agents :
                agent_queues[a] # NoBinding => agent_queues'[a] = agent_queues[a]
          /\ Len(registered_agents') >= Len(registered_agents)
          /\ SubSeq(registered_agents', 1, Len(registered_agents))
                = registered_agents]_vars

C26_Witness ==
    /\ lastCall.op = "verify_connection"
    /\ lastCall.events[1].ret = FALSE
    /\ chan = "closed"
    /\ Len(registered_agents) >= 2
    /\ RosterNames = RegistryKeys

====
